---- MODULE Spec2Model ----
(***************************************************************************)
(* The two workflow definitions of workflow/airflow/dags:                  *)
(*   example_dag.py         example_etl_pipeline                           *)
(*   parallel_tasks_dag.py  parallel_tasks_example                         *)
(* A behaviour is the life of one definition file: it is loaded, and the   *)
(* orchestration engine drives runs of the declared graph, calling the     *)
(* task callables and passing their return values through the run context  *)
(* (XCom).  The two files share nothing, so wf is chosen once in Init.     *)
(* The engine itself is the framework the files import; its steps are     *)
(* modelled by the defaults the files rely on: a task starts once all its  *)
(* upstream tasks succeeded, a failed attempt is retried default_args      *)
(* ['retries'] times, and a callable's non-None return value is stored     *)
(* under its task id.                                                      *)
(***************************************************************************)
EXTENDS Integers, Sequences, FiniteSets, TLC

VARIABLES wf,      \* the dag_id of the definition this behaviour is about
          dag,     \* the graph object built by the last load of the file
          loads,   \* how many times the file has been evaluated
          run,     \* number of the current run
          now,     \* the wall clock read by datetime.now()
          state,   \* task id -> task instance state in the current run
          tries,   \* task id -> attempts started in the current run
          ran,     \* task id -> the callable of the current attempt returned
          ret,     \* task id -> value returned by the current attempt
          xcom,    \* task id -> run-context entry of the current run
          out,     \* task id -> sequence of payloads the task printed
          reads,   \* task id -> xcom_pull calls made: [target, value]
          done     \* task ids in the order in which they succeeded

vars == <<wf, dag, loads, run, now, state, tries, ran, ret, xcom, out, reads, done>>

\* ---------------------------------------------------------------- bounds
MaxLoads == 2
MaxRuns == 2
MaxClock == 1

\* ---------------------------------------------------------------- values
ETL == "example_etl_pipeline"
PAR == "parallel_tasks_example"
Workflows == {ETL, PAR}

\* Python's None; a task returning None leaves no run-context entry
None == [none |-> TRUE]

\* a Python str
Str(s) == [str |-> s]

\* datetime.isoformat(): the text of an instant, distinct from the instant
IsoFormat(t) == [iso |-> t]

\* {**d, **e}: the keys of both, e winning
DictMerge(d, e) == e @@ d

\* ------------------------------------------------- the definition files
\* variant: retries set to 2
EtlRetriesTwo == 1 + 1

\* example_dag.py, default_args['retries']
EtlRetries == 1

\* parallel_tasks_dag.py, default_args['retries']
ParRetries == 1

\* example_dag.py: task_id of each operator, in declaration order
EtlOperators == <<"start", "extract", "transform", "load", "end">>

\* variant: task_b declared with the task_id of task_a
ParOperatorsDuplicateId == <<"start", "task_a", "task_a", "task_c", "aggregate">>

\* parallel_tasks_dag.py: task_id of each operator, in declaration order
ParOperators == <<"start", "task_a", "task_b", "task_c", "aggregate">>

\* variant: start >> [extract, transform] >> load >> end
EtlDependenciesFanOut == <<{"start"}, {"extract", "transform"}, {"load"}, {"end"}>>

\* example_dag.py: the operands of the dependency statement, left to right
EtlDependencies == <<{"start"}, {"extract"}, {"transform"}, {"load"}, {"end"}>>

\* variant: the fan-in onto aggregate left out (start >> [task_a, task_b, task_c])
ParDependenciesNoFanIn == <<{"start"}, {"task_a", "task_b", "task_c"}>>

\* variant: start >> task_a >> task_b >> task_c >> aggregate
ParDependenciesSerial == <<{"start"}, {"task_a"}, {"task_b"}, {"task_c"}, {"aggregate"}>>

\* parallel_tasks_dag.py: the operands of the dependency statement, left to right
ParDependencies == <<{"start"}, {"task_a", "task_b", "task_c"}, {"aggregate"}>>

\* the declarations of the file that defines workflow w
Retries(w) == IF w = ETL THEN EtlRetries ELSE ParRetries
Operators(w) == IF w = ETL THEN EtlOperators ELSE ParOperators
Dependencies(w) == IF w = ETL THEN EtlDependencies ELSE ParDependencies

\* left >> right: every task of right is set downstream of every task of left
RShift(edges, left, right) == edges \cup {<<u, d>> : u \in left, d \in right}

RECURSIVE ChainEdges(_, _)
\* a >> b >> c ... evaluated from operand i on
ChainEdges(chain, i) ==
    IF i >= Len(chain) THEN {}
    ELSE RShift(ChainEdges(chain, i + 1), chain[i], chain[i + 1])

\* variant: the structure depends on the time of evaluation
LoadDagDynamic(w) ==
    [dag_id  |-> w,
     tasks   |-> Operators(w),
     edges   |-> ChainEdges(Dependencies(w), 1)
                 \cup (IF now = 0 THEN {} ELSE {<<Operators(w)[1], Operators(w)[5]>>}),
     retries |-> Retries(w)]

\* evaluating the file: a fresh DAG object, its operators, its edges
LoadDag(w) ==
    [dag_id  |-> w,
     tasks   |-> Operators(w),
     edges   |-> ChainEdges(Dependencies(w), 1),
     retries |-> Retries(w)]

\* ------------------------------------------------------- graph accessors
TaskSet(g) == {g.tasks[i] : i \in DOMAIN g.tasks}
Tasks == TaskSet(dag)
Upstream(t) == {u \in Tasks : <<u, t>> \in dag.edges}

\* ------------------------------------------------------ the run context
\* ti.xcom_pull(task_ids=u): the entry of u, None when there is none
XComPull(x, u) == IF u \in DOMAIN x THEN x[u] ELSE None

\* variant: the value is stored under every key
XComPushAll(x, t, v) == IF v = None THEN x ELSE [u \in DOMAIN x |-> v]

\* the engine stores a callable's return value under its task id; None is not stored
XComPush(x, t, v) == IF v = None THEN x ELSE [x EXCEPT ![t] = v]

\* ------------------------------------------------------- task callables
\* each yields: the pulls it made, the payloads it printed, whether it
\* raised, and its return value
Result(rd, pr, ex, v) == [reads |-> rd, prints |-> pr, raised |-> ex, ret |-> v]

\* BashOperator, echo "...": returns the last line of its output
BashEcho(s) == Result({}, <<>>, FALSE, Str(s))

extract_data(clk) ==
    Result({}, <<>>, FALSE, [records |-> 100, timestamp |-> IsoFormat(clk)])

\* variant: transform stamps the record anew
transform_data_restamped(x) ==
    LET data == XComPull(x, "extract")
    IN  Result({[target |-> "extract", value |-> data]}, <<data>>,
               data = None,
               IF data = None THEN None
               ELSE DictMerge(data, [processed |-> TRUE, timestamp |-> IsoFormat(now)]))

transform_data(x) ==
    LET data == XComPull(x, "extract")
    IN  Result({[target |-> "extract", value |-> data]}, <<data>>,
               data = None,     \* {**None} raises TypeError
               IF data = None THEN None
               ELSE DictMerge(data, [processed |-> TRUE]))

\* variant: load pulls from its downstream task
load_data_pulls_end(x) ==
    LET data == XComPull(x, "end")
    IN  Result({[target |-> "end", value |-> data]}, <<data>>, FALSE, None)

load_data(x) ==
    LET data == XComPull(x, "transform")
    IN  Result({[target |-> "transform", value |-> data]}, <<data>>, FALSE, None)

process_task_a == Result({}, <<>>, FALSE, Str("A"))
\* variant: task B returns the identifier of task A
process_task_b_returns_A == Result({}, <<>>, FALSE, Str("A"))
process_task_b == Result({}, <<>>, FALSE, Str("B"))
process_task_c == Result({}, <<>>, FALSE, Str("C"))

aggregate_results(x) ==
    LET result_a == XComPull(x, "task_a")
        result_b == XComPull(x, "task_b")
        result_c == XComPull(x, "task_c")
    IN  Result({[target |-> "task_a", value |-> result_a],
                [target |-> "task_b", value |-> result_b],
                [target |-> "task_c", value |-> result_c]},
               <<[a |-> result_a, b |-> result_b, c |-> result_c]>>, FALSE, None)

\* the lambda of parallel_tasks_example's start
start_lambda == Result({}, <<>>, FALSE, None)

\* the callable or command registered under task id t of workflow w
Callable(w, t, x, clk) ==
    IF w = ETL THEN
        CASE t = "start"     -> BashEcho("ETL begin")
          [] t = "extract"   -> extract_data(clk)
          [] t = "transform" -> transform_data(x)
          [] t = "load"      -> load_data(x)
          [] OTHER           -> BashEcho("ETL complete")
    ELSE
        CASE t = "start"     -> start_lambda
          [] t = "task_a"    -> process_task_a
          [] t = "task_b"    -> process_task_b
          [] t = "task_c"    -> process_task_c
          [] OTHER           -> aggregate_results(x)

\* ------------------------------------------------------------ the engine
Finished == {"success", "failed", "upstream_failed"}

\* state of a task whose attempt failed: retried while attempts <= retries
AfterFailure(t) == IF tries[t] <= dag.retries THEN "up_for_retry" ELSE "failed"

FreshRun(g) ==
    /\ state = [t \in TaskSet(g) |-> "none"]
    /\ tries = [t \in TaskSet(g) |-> 0]
    /\ ran   = [t \in TaskSet(g) |-> FALSE]
    /\ ret   = [t \in TaskSet(g) |-> None]
    /\ xcom  = [t \in TaskSet(g) |-> None]
    /\ out   = [t \in TaskSet(g) |-> <<>>]
    /\ reads = [t \in TaskSet(g) |-> {}]
    /\ done  = <<>>

Init ==
    /\ wf \in Workflows
    /\ now = 0
    /\ loads = 1
    /\ run = 1
    /\ dag = LoadDag(wf)
    /\ FreshRun(dag)

\* the file is evaluated again (the engine re-parses definition files)
Load ==
    /\ loads < MaxLoads
    /\ loads' = loads + 1
    /\ dag' = LoadDag(wf)
    /\ UNCHANGED <<wf, run, now, state, tries, ran, ret, xcom, out, reads, done>>

\* time passes
Tick ==
    /\ now < MaxClock
    /\ now' = now + 1
    /\ UNCHANGED <<wf, dag, loads, run, state, tries, ran, ret, xcom, out, reads, done>>

\* an attempt of t begins: every upstream task has succeeded
StartTask(t) ==
    /\ state[t] \in {"none", "up_for_retry"}
    /\ \A u \in Upstream(t) : state[u] = "success"
    /\ state' = [state EXCEPT ![t] = "running"]
    /\ tries' = [tries EXCEPT ![t] = @ + 1]
    /\ ran' = [ran EXCEPT ![t] = FALSE]
    /\ ret' = [ret EXCEPT ![t] = None]
    /\ UNCHANGED <<wf, dag, loads, run, now, xcom, out, reads, done>>

\* the callable of t runs to its return (or raises)
Execute(t) ==
    /\ state[t] = "running"
    /\ ~ran[t]
    /\ LET r == Callable(wf, t, xcom, now)
       IN  /\ reads' = [reads EXCEPT ![t] = @ \cup r.reads]
           /\ out' = [out EXCEPT ![t] = @ \o r.prints]
           /\ IF r.raised
              THEN /\ state' = [state EXCEPT ![t] = AfterFailure(t)]
                   /\ UNCHANGED <<ran, ret>>
              ELSE /\ ran' = [ran EXCEPT ![t] = TRUE]
                   /\ ret' = [ret EXCEPT ![t] = r.ret]
                   /\ UNCHANGED state
    /\ UNCHANGED <<wf, dag, loads, run, now, tries, xcom, done>>

\* the attempt of t ends well: its return value becomes its run-context entry
Succeed(t) ==
    /\ state[t] = "running"
    /\ ran[t]
    /\ state' = [state EXCEPT ![t] = "success"]
    /\ xcom' = XComPush(xcom, t, ret[t])
    /\ done' = Append(done, t)
    /\ UNCHANGED <<wf, dag, loads, run, now, tries, ran, ret, out, reads>>

\* the attempt of t fails for a reason outside the callable
Fail(t) ==
    /\ state[t] = "running"
    /\ state' = [state EXCEPT ![t] = AfterFailure(t)]
    /\ ran' = [ran EXCEPT ![t] = FALSE]
    /\ ret' = [ret EXCEPT ![t] = None]
    /\ UNCHANGED <<wf, dag, loads, run, now, tries, xcom, out, reads, done>>

\* t will never run: an upstream task failed for good
MarkUpstreamFailed(t) ==
    /\ state[t] = "none"
    /\ \E u \in Upstream(t) : state[u] \in {"failed", "upstream_failed"}
    /\ state' = [state EXCEPT ![t] = "upstream_failed"]
    /\ UNCHANGED <<wf, dag, loads, run, now, tries, ran, ret, xcom, out, reads, done>>

\* the next scheduled run begins once the current one is over
NewRun ==
    /\ run < MaxRuns
    /\ \A t \in Tasks : state[t] \in Finished
    /\ run' = run + 1
    /\ state' = [t \in Tasks |-> "none"]
    /\ tries' = [t \in Tasks |-> 0]
    /\ ran'   = [t \in Tasks |-> FALSE]
    /\ ret'   = [t \in Tasks |-> None]
    /\ xcom'  = [t \in Tasks |-> None]
    /\ out'   = [t \in Tasks |-> <<>>]
    /\ reads' = [t \in Tasks |-> {}]
    /\ done'  = <<>>
    /\ UNCHANGED <<wf, dag, loads, now>>

Next ==
    \/ Load
    \/ Tick
    \/ NewRun
    \/ \E t \in Tasks : StartTask(t)
    \/ \E t \in Tasks : Execute(t)
    \/ \E t \in Tasks : Succeed(t)
    \/ \E t \in Tasks : Fail(t)
    \/ \E t \in Tasks : MarkUpstreamFailed(t)

Spec == Init /\ [][Next]_vars

\* ------------------------------------------------------------ properties
Parallel == {"task_a", "task_b", "task_c"}
EtlSequence == <<"start", "extract", "transform", "load", "end">>

\* an attempt of t has begun in the current run
Started(t) == tries[t] > 0

RECURSIVE AncestorsWithin(_, _, _)
\* the tasks from which t is reached along at most n edges of g
AncestorsWithin(g, t, n) ==
    IF n = 0 THEN {}
    ELSE LET P == {e[1] : e \in {f \in g.edges : f[2] = t}}
         IN  P \cup UNION {AncestorsWithin(g, u, n - 1) : u \in P}

Ancestors(g, t) == AncestorsWithin(g, t, Len(g.tasks))

\* C1: in parallel_tasks_example, aggregate has not begun any attempt unless
\* task_a, task_b and task_c have all succeeded
AggregateAfterParallel ==
    wf = PAR =>
        (Started("aggregate") => \A t \in Parallel : state[t] = "success")

AggregateRunning == wf = PAR /\ state["aggregate"] = "running"

\* C2: in parallel_tasks_example, every line aggregate prints carries "A" from
\* task_a, "B" from task_b and "C" from task_c, whatever the completion order
AggregateReportsABC ==
    wf = PAR =>
        \A i \in DOMAIN out["aggregate"] :
            out["aggregate"][i] = [a |-> Str("A"), b |-> Str("B"), c |-> Str("C")]

AggregateReportedAfterCBA ==
    /\ wf = PAR
    /\ out["aggregate"] # <<>>
    /\ SubSeq(done, 2, 4) = <<"task_c", "task_b", "task_a">>

\* C3: in example_etl_pipeline a task has begun only if its predecessor in
\* start, extract, transform, load, end has succeeded, and at most one task
\* is running at any time
EtlStrictSequence ==
    wf = ETL =>
        /\ \A i \in 2..Len(EtlSequence) :
              Started(EtlSequence[i]) => state[EtlSequence[i - 1]] = "success"
        /\ Cardinality({t \in Tasks : state[t] = "running"}) <= 1

EtlEndSucceeded == wf = ETL /\ state["end"] = "success" /\ done = EtlSequence

\* C4: in example_etl_pipeline every payload load prints has records = 100,
\* the timestamp extract returned, and processed = TRUE
LoadReportsProcessedRecord ==
    wf = ETL =>
        \A i \in DOMAIN out["load"] :
            LET p == out["load"][i]
            IN  /\ {"records", "timestamp", "processed"} \subseteq DOMAIN p
                /\ p.records = 100
                /\ p.timestamp = ret["extract"].timestamp
                /\ p.processed = TRUE

LoadReportedLater ==
    /\ wf = ETL
    /\ out["load"] # <<>>
    /\ ret["extract"].timestamp # IsoFormat(now)

\* C5: the loaded graph is acyclic, its task ids are pairwise distinct, and
\* both ends of every edge are tasks of the graph
GraphStructurallyValid ==
    /\ \A i, j \in DOMAIN dag.tasks : dag.tasks[i] = dag.tasks[j] => i = j
    /\ \A e \in dag.edges : e[1] \in Tasks /\ e[2] \in Tasks
    /\ \A t \in Tasks : t \notin Ancestors(dag, t)

BothGraphShapesLoaded ==
    /\ loads > 1
    /\ \/ wf = PAR /\ Cardinality(Upstream("aggregate")) = 3
       \/ wf = ETL /\ Ancestors(dag, "end") = {"start", "extract", "transform", "load"}

XComWriteOnce ==
    [][run' = run =>
        \A t \in Tasks :
            /\ xcom[t] # None => xcom'[t] = xcom[t]
            /\ (xcom[t] = None /\ xcom'[t] # None) =>
                  /\ state[t] = "running" /\ state'[t] = "success"
                  /\ xcom'[t] = ret[t]
            /\ state'[t] = "success" => xcom'[t] = ret'[t]]_vars

EntriesReadDownstream ==
    /\ wf = ETL
    /\ state["load"] = "success"
    /\ xcom["extract"] # None
    /\ xcom["transform"] # None

\* C8: no task is attempted more than twice in a run; a task awaiting its
\* retry has failed once, and a failed task has failed twice
AtMostOneRetry ==
    \A t \in Tasks :
        /\ tries[t] <= 2
        /\ state[t] = "up_for_retry" => tries[t] = 1
        /\ state[t] = "failed" => tries[t] = 2

SomeTaskFailedForGood ==
    \E t \in Tasks : state[t] = "failed" /\ tries[t] = 2

\* C9: in parallel_tasks_example each of task_a, task_b, task_c can take its
\* next step whenever start has succeeded, whatever the other two are doing
ParallelTasksIndependent ==
    wf = PAR =>
        \A t \in Parallel :
            /\ (state["start"] = "success" /\ state[t] \in {"none", "up_for_retry"})
                  => ENABLED StartTask(t)
            /\ (state[t] = "running" /\ ~ran[t]) => ENABLED Execute(t)
            /\ (state[t] = "running" /\ ran[t]) => ENABLED Succeed(t)

CompletedInOrderCBA ==
    /\ wf = PAR
    /\ Len(done) >= 4
    /\ SubSeq(done, 1, 4) = <<"start", "task_c", "task_b", "task_a">>

\* C10: every xcom_pull made targets an ancestor of the reader and returned
\* an entry, and the entries a running reader pulls are present
ReadsFindEntries ==
    /\ \A t \in Tasks : \A r \in reads[t] :
          r.value # None /\ r.target \in Ancestors(dag, t)
    /\ wf = ETL =>
          /\ state["transform"] = "running" => xcom["extract"] # None
          /\ state["load"] = "running" => xcom["transform"] # None
    /\ wf = PAR =>
          (state["aggregate"] = "running" => \A t \in Parallel : xcom[t] # None)

AggregatePulledAll == wf = PAR /\ Cardinality(reads["aggregate"]) = 3

====
